---------------------------- MODULE Spec2Model ----------------------------
(***************************************************************************)
(* fs-index: a model of the two command-line tools of the repository.      *)
(*                                                                         *)
(*   src/src/bin/size.rs  calculate_folder_size: strict, parallel byte sum *)
(*   src/src/main.rs      index_folder: lenient, parallel tree indexing    *)
(*                        with per-directory .gitignore handling           *)
(*                                                                         *)
(* The filesystem is an input: a tree of entries 1..n (entry 1 is the      *)
(* folder_path given on the command line), fixed for a whole behaviour.    *)
(* Every entry is a file or a directory; symbolic links are not modelled.  *)
(* A filesystem call on an entry may fail (fault); a directory may hold a  *)
(* .gitignore file, modelled by the set of entries its patterns match.     *)
(*                                                                         *)
(* rayon's par_bridge runs one closure per directory entry; the closures   *)
(* of one directory complete in any order.  Each closure is one step of    *)
(* the model, as are the sequential head and tail of the function around   *)
(* the parallel iterator.                                                  *)
(*                                                                         *)
(* Left out: the wrap-around of the u64 sums (the lengths modelled stay    *)
(* far below 2^64), the panic of path.file_name().unwrap() on a            *)
(* folder_path such as "." or "/", the panic of builder.build().unwrap(),  *)
(* and what fuzzy_search prints.                                           *)
(***************************************************************************)
EXTENDS Naturals, Sequences, FiniteSets

\* Bounds of the model.
MaxNodes == 4
MaxFaults == 1

VARIABLES
    fs,             \* the filesystem: [n, parent, kind, fault, gitignore]
    pc,             \* the process: "shell", "size", "index", "exited"
    stdout,         \* lines printed to the standard output
    stderr,         \* lines printed to the standard error
    sst,            \* size tool: state of the call on each entry
    sacc,           \* size tool: try_fold accumulators of each directory
    sres,           \* size tool: io::Result<u64> of the call on each entry
    ist,            \* indexer: state of the call on each entry
    inh,            \* indexer: the gitignore argument of the call on each entry
    ich,            \* indexer: the collected Vec<FileNode> of each directory
    ires,           \* indexer: io::Result<FileNode> of the call on each entry
    file_tree_json, \* file_tree.json in the working directory: <<>>, or <<tree>>
    folder_path,    \* the entry the indexer was last started on
    prev            \* what the previous run of the indexer returned, per entry

vars == <<fs, pc, stdout, stderr, sst, sacc, sres, ist, inh, ich, ires,
          file_tree_json, folder_path, prev>>

sizeVars == <<sst, sacc, sres>>
indexVars == <<ist, inh, ich, ires, file_tree_json, folder_path, prev>>

-----------------------------------------------------------------------------
(* The filesystem *)

Root == 1
Nodes == 1 .. fs.n
Children(d) == {c \in Nodes : fs.parent[c] = d}
IsFile(n) == fs.kind[n] = "file"
IsDir(n) == fs.kind[n] = "dir"

RECURSIVE Pow2(_)
Pow2(k) == IF k = 0 THEN 1 ELSE 2 * Pow2(k - 1)

\* metadata.len(): entry k is 2^(k-1) bytes long, so that every set of files
\* has a sum of its own.
FileLen(n) == Pow2(n - 1)

\* The path of an entry, as the sequence of its components from folder_path
\* down; path.file_name() is its last component.
RECURSIVE PathOf(_)
PathOf(n) == IF n = Root THEN <<n>> ELSE Append(PathOf(fs.parent[n]), n)
FileName(n) == <<n>>

\* The entries below d, d included.
RECURSIVE Subtree(_)
Subtree(d) == {d} \cup UNION {Subtree(c) : c \in Children(d)}

\* Sum of the elements of a finite set of naturals mapped by f.
RECURSIVE SumOver(_, _)
SumOver(S, f) ==
    IF S = {} THEN 0
    ELSE LET x == CHOOSE y \in S : TRUE IN f[x] + SumOver(S \ {x}, f)

\* Faults: "entry" the directory-entry read of the entry fails in its
\* parent's enumeration; "stat" reading its metadata fails (the entry is
\* missing); "readdir" enumerating it fails (a directory not readable).

\* The functions f on 1 .. k with f[n] \in options[n] for every n.
RECURSIVE Choices(_, _)
Choices(k, options) ==
    IF k = 0 THEN {<<>>}
    ELSE {Append(f, o) : f \in Choices(k - 1, options), o \in options[k]}

Shapes(k) == Choices(k, [n \in 1 .. k |-> IF n = 1 THEN {0} ELSE 1 .. n - 1])

KindsOf(k, p) ==
    {kd \in Choices(k, [n \in 1 .. k |-> {"file", "dir"}]) :
        \A n \in 2 .. k : kd[p[n]] = "dir"}

FaultsOf(k, kd) ==
    {f \in Choices(k, [n \in 1 .. k |->
                          {"none", "stat"}
                          \cup (IF n > 1 THEN {"entry"} ELSE {})
                          \cup (IF kd[n] = "dir" THEN {"readdir"} ELSE {})]) :
        Cardinality({n \in 1 .. k : f[n] # "none"}) <= MaxFaults}

RECURSIVE Below(_, _, _)
Below(k, p, d) == {d} \cup UNION {Below(k, p, c) : c \in {x \in 1 .. k : p[x] = d}}

\* A file entry may be the .gitignore of its directory: gitignore[n] is then
\* the set of entries the patterns of the file match (everything at and below
\* the directory, or one entry of it), and {} for every other entry.  The
\* .gitignore of a directory is the first of its entries.  The patterns may
\* match the directory that holds the file: Gitignore::matched strips the
\* root of the rules from the path only when the path has a parent
\* component, so with folder_path given as the bare name `build` the pattern
\* `build` of build/.gitignore matches the directory itself.
GitignoresOf(k, p, kd) ==
    Choices(k, [n \in 1 .. k |->
        {{}} \cup
        (IF n > 1 /\ kd[n] = "file" /\ \A c \in 1 .. n - 1 : p[c] # p[n]
         THEN {Below(k, p, p[n])} \cup {{x} : x \in Below(k, p, p[n])}
         ELSE {})])

NoFaults(k) == [x \in 1 .. k |-> "none"]
NoGitignores(k) == [x \in 1 .. k |-> {}]

\* fs is one of the filesystems of at most MaxNodes entries; faults and
\* .gitignore files only where asked for.
FileSystemIs(withFaults, withGitignores) ==
    \E k \in 1 .. MaxNodes :
      \E p \in Shapes(k) :
        \E kd \in KindsOf(k, p) :
          \E f \in IF withFaults THEN FaultsOf(k, kd) ELSE {NoFaults(k)} :
            \E g \in IF withGitignores THEN GitignoresOf(k, p, kd)
                    ELSE {NoGitignores(k)} :
              fs = [n |-> k, parent |-> p, kind |-> kd, fault |-> f,
                    gitignore |-> g]

-----------------------------------------------------------------------------
(* io::Result *)

Ok(v) == [ok |-> TRUE, val |-> v]
Err(k) == [ok |-> FALSE, kind |-> k]

\* The initial value of the variables of both tools.
Idle == [x \in Nodes |-> "idle"]
NoResult == [x \in Nodes |-> Err("none")]

-----------------------------------------------------------------------------
(* size.rs *)

Workers == {"w1", "w2"}

\* fs::metadata(path): Ok, or NotFound.
MetadataFails(n) == fs.fault[n] = "stat"
\* fs::read_dir(path): Ok, or PermissionDenied.
ReadDirFails(n) == fs.fault[n] = "readdir"
\* One item of the ReadDir iterator: Ok(entry), or an error.
EntryFails(n) == fs.fault[n] = "entry"

SizeDone(n, r) ==
    /\ sst' = [sst EXCEPT ![n] = "done"]
    /\ sres' = [sres EXCEPT ![n] = r]
    /\ UNCHANGED sacc

\* main of size.rs up to its call of calculate_folder_size(folder_path).
SizeMain ==
    /\ pc = "shell"
    /\ pc' = "size"
    /\ sst' = [sst EXCEPT ![Root] = "running"]
    /\ stdout' = <<>>
    /\ stderr' = <<>>
    /\ UNCHANGED <<fs, sacc, sres, indexVars>>

\* main of size.rs given no folder_path, or more than one argument.
SizeUsage ==
    /\ pc = "shell"
    /\ pc' = "exited"
    /\ stdout' = <<<<"Usage">>>>
    /\ UNCHANGED <<fs, stderr, sizeVars, indexVars>>

\* calculate_folder_size(path) up to the parallel iterator; for an entry
\* below folder_path the closure of try_fold starts with `entry?`.
calculate_folder_size(n) ==
    /\ pc = "size"
    /\ sst[n] = "running"
    /\ IF EntryFails(n) THEN SizeDone(n, Err("Other"))
       ELSE IF MetadataFails(n) THEN SizeDone(n, Err("NotFound"))
       ELSE IF IsFile(n) THEN SizeDone(n, Ok(FileLen(n)))
       ELSE IF ReadDirFails(n) THEN SizeDone(n, Err("PermissionDenied"))
       ELSE IF Children(n) = {} THEN SizeDone(n, Ok(0))
       ELSE /\ sst' = [x \in Nodes |->
                          IF x = n THEN "waiting"
                          ELSE IF x \in Children(n) THEN "running"
                          ELSE sst[x]]
            /\ sacc' = [sacc EXCEPT ![n] = [w \in Workers |-> Ok(0)]]
            /\ UNCHANGED sres
    /\ UNCHANGED <<fs, pc, stdout, stderr, indexVars>>

\* Mutants of TryFoldStep: the accumulator is overwritten; a failed entry is
\* passed over.
TryFoldStep_overwrite(acc, r) == IF r.ok THEN Ok(r.val) ELSE r
TryFoldStep_lenient(acc, r) == IF r.ok THEN Ok(acc.val + r.val) ELSE acc

\* The closure of try_fold: Ok(acc + size), or the error of the entry.
TryFoldStep(acc, r) == IF r.ok THEN Ok(acc.val + r.val) ELSE r

\* A worker folds the result of a finished entry into its accumulator.
SizeFold(c, w) ==
    /\ pc = "size"
    /\ sst[c] = "done"
    /\ c # Root
    /\ sst[fs.parent[c]] = "waiting"
    /\ sacc[fs.parent[c]][w].ok
    /\ sacc' = [sacc EXCEPT ![fs.parent[c]][w] = TryFoldStep(@, sres[c])]
    /\ sst' = [sst EXCEPT ![c] = "folded"]
    /\ UNCHANGED <<fs, pc, stdout, stderr, sres, indexVars>>

\* Once an accumulator holds an error the iterator is full: entries not yet
\* taken by a worker are not visited.
SizeSkip(c) ==
    /\ pc = "size"
    /\ sst[c] = "running"
    /\ c # Root
    /\ sst[fs.parent[c]] = "waiting"
    /\ \E w \in Workers : ~sacc[fs.parent[c]][w].ok
    /\ sst' = [sst EXCEPT ![c] = "skipped"]
    /\ UNCHANGED <<fs, pc, stdout, stderr, sacc, sres, indexVars>>

\* Mutant of TryReduce: the result of the first accumulator alone.
TryReduce_first(accs) == {accs["w1"]}

\* try_reduce(|| 0, |a, b| Ok(a + b)): the sum of the accumulators, or one
\* of their errors.
TryReduce(accs) ==
    IF \A w \in Workers : accs[w].ok
    THEN {Ok(accs["w1"].val + accs["w2"].val)}
    ELSE {accs[w] : w \in {v \in Workers : ~accs[v].ok}}

SizeReduce(n) ==
    /\ pc = "size"
    /\ sst[n] = "waiting"
    /\ \A c \in Children(n) : sst[c] \in {"folded", "skipped"}
    /\ \E r \in TryReduce(sacc[n]) : SizeDone(n, r)
    /\ UNCHANGED <<fs, pc, stdout, stderr, indexVars>>

\* main of size.rs after the call: the size or the error, then the time; the
\* process exits, and of its calls only what they returned is kept.
SizeReport ==
    /\ pc = "size"
    /\ sst[Root] = "done"
    /\ pc' = "exited"
    /\ IF sres[Root].ok
       THEN /\ stdout' = stdout \o <<<<"Total size", sres[Root].val>>, <<"Time taken">>>>
            /\ UNCHANGED stderr
       ELSE /\ stderr' = Append(stderr, <<"Error", sres[Root].kind>>)
            /\ stdout' = Append(stdout, <<"Time taken">>)
    /\ sst' = Idle
    /\ sacc' = [x \in Nodes |-> [w \in Workers |-> Ok(0)]]
    /\ UNCHANGED <<fs, sres, indexVars>>

-----------------------------------------------------------------------------
(* main.rs: FileNode, the ignore rules *)

\* FileNode::new
FileNode_new(name, size, node_type) ==
    [name |-> name, size |-> size, node_type |-> node_type, children |-> <<>>]

\* Mutant of add_child: the child is pushed and its size is not added.
add_child_nosize(node, child) == [node EXCEPT !.children = Append(@, child)]

\* FileNode::add_child
add_child(node, child) ==
    [node EXCEPT !.size = @ + child.size, !.children = Append(@, child)]

\* A Gitignore: the directory it was built for and the entries it matches.
NoRules == [root |-> 0, ignored |-> {}]

\* gitignore_path.exists(): the directory holds a .gitignore whose metadata
\* can be read.
GitignoreFiles(path) ==
    {c \in Children(path) : IsFile(c) /\ fs.gitignore[c] # {} /\ ~MetadataFails(c)}

\* read_gitignore(path): the rules of path/.gitignore, or no rule at all.
read_gitignore(path) ==
    [root |-> path, ignored |-> UNION {fs.gitignore[c] : c \in GitignoreFiles(path)}]

\* gitignore.matched(path, is_dir).is_ignore()
matched(gitignore, path) == path \in gitignore.ignored

\* Mutant of DirectoryRules: the rules given by the caller.
DirectoryRules_inherited(new_gitignore, gitignore) == gitignore

\* The rules index_folder checks a directory against: the ones it has just
\* loaded from the directory itself, not the ones it was given.
DirectoryRules(new_gitignore, gitignore) == new_gitignore

\* calculate_ignored_size(path): the set of results the call can return (one
\* result, or one error per failing entry, whichever the enumeration meets
\* first).
RECURSIVE calculate_ignored_size(_)

\* Mutant of IgnoredEntry: a subdirectory is not descended into.
IgnoredEntry_shallow(c) ==
    IF EntryFails(c) THEN {Err("Other")}
    ELSE IF MetadataFails(c) THEN {Err("NotFound")}
    ELSE IF IsFile(c) THEN {Ok(FileLen(c))}
    ELSE {Ok(0)}

\* One entry of the loop of calculate_ignored_size: `entry?`, its metadata,
\* and its length or the size of the directory it is.
IgnoredEntry(c) ==
    IF EntryFails(c) THEN {Err("Other")}
    ELSE IF MetadataFails(c) THEN {Err("NotFound")}
    ELSE IF IsFile(c) THEN {Ok(FileLen(c))}
    ELSE calculate_ignored_size(c)
calculate_ignored_size(path) ==
    IF ReadDirFails(path) THEN {Err("PermissionDenied")}
    ELSE LET results == UNION {IgnoredEntry(c) : c \in Children(path)}
             errors == {r \in results : ~r.ok}
         IN  IF errors # {} THEN errors
             ELSE {Ok(SumOver(Children(path),
                      [c \in Children(path) |->
                          (CHOOSE r \in IgnoredEntry(c) : TRUE).val]))}

-----------------------------------------------------------------------------
(* main.rs: index_folder and main *)

IndexDone(n, r) ==
    /\ ist' = [ist EXCEPT ![n] = "done"]
    /\ ires' = [ires EXCEPT ![n] = r]
    /\ UNCHANGED <<inh, ich>>

\* The node index_folder returns for a file: the same in both branches of the
\* ignore check.
FileResult(n) ==
    IF matched(inh[n], n)
    THEN Ok(FileNode_new(FileName(n), FileLen(n), "File"))
    ELSE Ok(FileNode_new(FileName(n), FileLen(n), "File"))

\* The node index_folder returns for an ignored directory.
IgnoredResult(n, size) ==
    IF size.ok
    THEN Ok(FileNode_new(PathOf(n), size.val, "IgnoredDirectory"))
    ELSE size

\* index_folder(path, gitignore) up to the parallel iterator.
index_folder(n) ==
    /\ pc = "index"
    /\ ist[n] = "running"
    /\ IF MetadataFails(n) THEN IndexDone(n, Err("NotFound"))
       ELSE IF IsFile(n) THEN IndexDone(n, FileResult(n))
       ELSE LET new_gitignore == read_gitignore(n) IN
            IF matched(DirectoryRules(new_gitignore, inh[n]), n)
            THEN \E size \in calculate_ignored_size(n) :
                     IndexDone(n, IgnoredResult(n, size))
            ELSE IF ReadDirFails(n) THEN IndexDone(n, Err("PermissionDenied"))
            ELSE /\ ist' = [x \in Nodes |->
                               IF x = n THEN "waiting"
                               ELSE IF x \in Children(n)
                                    THEN IF EntryFails(x) THEN "dropped"
                                         ELSE "running"
                               ELSE ist[x]]
                 /\ inh' = [x \in Nodes |->
                               IF x \in Children(n) THEN new_gitignore ELSE inh[x]]
                 /\ ich' = [ich EXCEPT ![n] = <<>>]
                 /\ UNCHANGED ires
    /\ UNCHANGED <<fs, pc, stdout, stderr, sizeVars, file_tree_json,
                   folder_path, prev>>

\* Mutants of Collected: a node replaces what was collected before it; only
\* the first node to arrive is kept.
Collected_overwrite(children, r) == IF r.ok THEN <<r.val>> ELSE children
Collected_first(children, r) ==
    IF r.ok /\ children = <<>> THEN <<r.val>> ELSE children

\* filter_map(.. .ok()) and collect(): the node of a finished child joins the
\* Vec of its directory, the error of a failed one is dropped.
Collected(children, r) == IF r.ok THEN Append(children, r.val) ELSE children

IndexCollect(c) ==
    /\ pc = "index"
    /\ ist[c] = "done"
    /\ c # folder_path
    /\ ist[fs.parent[c]] = "waiting"
    /\ ich' = [ich EXCEPT ![fs.parent[c]] = Collected(@, ires[c])]
    /\ ist' = [ist EXCEPT ![c] = "collected"]
    /\ UNCHANGED <<fs, pc, stdout, stderr, sizeVars, inh, ires, file_tree_json,
                   folder_path, prev>>

\* for child in children { node.add_child(child) }
RECURSIVE AddChildren(_, _)
AddChildren(node, children) ==
    IF children = <<>> THEN node
    ELSE AddChildren(add_child(node, Head(children)), Tail(children))

\* index_folder after the parallel iterator.
IndexFinish(n) ==
    /\ pc = "index"
    /\ ist[n] = "waiting"
    /\ \A c \in Children(n) : ist[c] \in {"collected", "dropped"}
    /\ IndexDone(n, Ok(AddChildren(FileNode_new(FileName(n), 0, "Directory"),
                                   ich[n])))
    /\ UNCHANGED <<fs, pc, stdout, stderr, sizeVars, file_tree_json,
                   folder_path, prev>>

\* main of main.rs up to its call of index_folder(folder_path, root_gitignore).
StartIndex(path) ==
    /\ pc' = "index"
    /\ folder_path' = path
    /\ ist' = [Idle EXCEPT ![path] = "running"]
    /\ inh' = [[x \in Nodes |-> NoRules] EXCEPT ![path] = read_gitignore(path)]
    /\ ich' = [x \in Nodes |-> <<>>]
    /\ ires' = NoResult
    /\ stdout' = <<>>
    /\ stderr' = <<>>
    /\ UNCHANGED <<fs, sizeVars, file_tree_json>>

IndexMain ==
    /\ pc \in {"shell", "exited"}
    /\ ist[folder_path] = "idle"
    /\ StartIndex(Root)
    /\ UNCHANGED prev

\* main of main.rs given no folder_path.
IndexUsage ==
    /\ pc = "shell"
    /\ pc' = "exited"
    /\ stdout' = <<<<"Usage">>>>
    /\ UNCHANGED <<fs, stderr, sizeVars, indexVars>>

\* Mutant of IndexReport: the file is written before the result is looked at.
IndexReport_writes_first ==
    /\ pc = "index"
    /\ ist[folder_path] = "done"
    /\ pc' = "exited"
    /\ file_tree_json' = <<ires[folder_path]>>
    /\ IF ~ires[folder_path].ok
       THEN /\ stderr' = Append(stderr, <<"Error", ires[folder_path].kind>>)
            /\ UNCHANGED stdout
       ELSE /\ stdout' = stdout \o
                  << <<"File tree has been indexed and saved to file_tree.json">> >>
            /\ UNCHANGED stderr
    /\ UNCHANGED <<fs, sizeVars, ist, inh, ich, ires, folder_path, prev>>

\* main of main.rs after the call: `?` returns the error of index_folder;
\* otherwise the tree is written to file_tree.json (a write that may fail
\* too) and the messages are printed.
IndexReport ==
    /\ pc = "index"
    /\ ist[folder_path] = "done"
    /\ pc' = "exited"
    /\ IF ~ires[folder_path].ok
       THEN /\ stderr' = Append(stderr, <<"Error", ires[folder_path].kind>>)
            /\ UNCHANGED <<stdout, file_tree_json>>
       ELSE \/ /\ file_tree_json' = <<ires[folder_path].val>>
               /\ stdout' = stdout \o
                     << <<"File tree has been indexed and saved to file_tree.json">>,
                        <<"Time taken to index">>,
                        <<"Total size", ires[folder_path].val.size>>,
                        <<"Fuzzy search results">> >>
               /\ UNCHANGED stderr
            \/ /\ stderr' = Append(stderr, <<"Error", "WriteFailed">>)
               /\ UNCHANGED <<stdout, file_tree_json>>
    /\ UNCHANGED <<fs, sizeVars, ist, inh, ich, ires, folder_path, prev>>

\* A tree up to the order of the children of each node.
RECURSIVE Canon(_)
Canon(node) ==
    [name |-> node.name, size |-> node.size, node_type |-> node.node_type,
     count |-> Len(node.children),
     children |-> {Canon(node.children[i]) : i \in 1 .. Len(node.children)}]

CanonResult(r) == IF r.ok THEN Ok(Canon(r.val)) ELSE r

NotSeen == [seen |-> FALSE]
Seen(n) == [seen |-> TRUE, gitignore |-> inh[n], result |-> CanonResult(ires[n])]

\* The indexer is run a second time, on any entry of the unchanged
\* filesystem.
IndexAgain(path) ==
    /\ pc = "exited"
    /\ ist[folder_path] = "done"
    /\ \A x \in Nodes : ~prev[x].seen
    /\ prev' = [x \in Nodes |->
                   IF ist[x] \in {"done", "collected"} THEN Seen(x) ELSE NotSeen]
    /\ StartIndex(path)

-----------------------------------------------------------------------------
(* Specifications *)

InitTools ==
    /\ pc = "shell"
    /\ stdout = <<>>
    /\ stderr = <<>>
    /\ sst = Idle
    /\ sacc = [x \in Nodes |-> [w \in Workers |-> Ok(0)]]
    /\ sres = NoResult
    /\ ist = Idle
    /\ inh = [x \in Nodes |-> NoRules]
    /\ ich = [x \in Nodes |-> <<>>]
    /\ ires = NoResult
    /\ file_tree_json = <<>>
    /\ folder_path = Root
    /\ prev = [x \in Nodes |-> NotSeen]

NextSize ==
    \/ SizeMain
    \/ SizeUsage
    \/ \E n \in Nodes : calculate_folder_size(n)
    \/ \E c \in Nodes, w \in Workers : SizeFold(c, w)
    \/ \E c \in Nodes : SizeSkip(c)
    \/ \E n \in Nodes : SizeReduce(n)
    \/ SizeReport

NextIndex ==
    \/ IndexMain
    \/ IndexUsage
    \/ \E n \in Nodes : index_folder(n)
    \/ \E c \in Nodes : IndexCollect(c)
    \/ \E n \in Nodes : IndexFinish(n)
    \/ IndexReport

\* One run of the indexer on a filesystem whose calls may fail.
InitIndex == FileSystemIs(TRUE, TRUE) /\ InitTools
SpecIndex == InitIndex /\ [][NextIndex]_vars

\* The size tool on a filesystem without .gitignore files whose calls may
\* fail.
InitSize == FileSystemIs(TRUE, FALSE) /\ InitTools
SpecSize == InitSize /\ [][NextSize]_vars

\* The size tool, and the indexer before or after it, on a filesystem on
\* which no call fails: SizeSkip, which needs an error, has no part in it.
NextBoth ==
    \/ SizeMain
    \/ SizeUsage
    \/ \E n \in Nodes : calculate_folder_size(n)
    \/ \E c \in Nodes, w \in Workers : SizeFold(c, w)
    \/ \E n \in Nodes : SizeReduce(n)
    \/ SizeReport
    \/ NextIndex
InitBoth == FileSystemIs(FALSE, TRUE) /\ InitTools
SpecBoth == InitBoth /\ [][NextBoth]_vars

\* The indexer run on folder_path and then a second time, on any entry, on an
\* unchanged filesystem on which no call fails.
NextAgain == NextIndex \/ \E path \in Nodes : IndexAgain(path)
InitAgain == FileSystemIs(FALSE, TRUE) /\ InitTools
SpecAgain == InitAgain /\ [][NextAgain]_vars

-----------------------------------------------------------------------------
(* Properties *)

Faulty == {x \in Nodes : fs.fault[x] # "none"}
NoFaultIn(S) == S \cap Faulty = {}

\* The files at any depth below n (n itself when it is a file), and the sum
\* of their lengths.
FilesBelow(n) == {f \in Subtree(n) : IsFile(f)}
TotalBytes(n) == SumOver(FilesBelow(n), [f \in Nodes |-> FileLen(f)])

\* The call of calculate_folder_size on n has returned.
SizeReturned(n) == sres[n] # Err("none")
\* The call of index_folder on n has returned.
IndexReturned(n) == ist[n] \in {"done", "collected"}

\* C3: on a tree none of whose filesystem calls fails, every call of
\* calculate_folder_size returns the sum of the lengths of the files below
\* its path, whatever the order in which the entries were folded and the
\* accumulators they were folded into, and the tool prints that sum.
C3_TotalSizeIsSumOfFileLengths ==
    /\ \A n \in Nodes :
           SizeReturned(n) /\ NoFaultIn(Subtree(n))
               => sres[n] = Ok(TotalBytes(n))
    /\ pc = "exited" /\ SizeReturned(Root) /\ NoFaultIn(Nodes)
           => stdout = <<<<"Total size", TotalBytes(Root)>>, <<"Time taken">>>>

\* C3 witness: the tool has summed a tree with a file in a subdirectory and
\* at least two files in all.
C3_Witness ==
    /\ pc = "exited"
    /\ NoFaultIn(Nodes)
    /\ sres[Root].ok
    /\ Cardinality(FilesBelow(Root)) >= 2
    /\ \E f \in FilesBelow(Root) : fs.parent[f] # Root

\* C4: when a call on any entry at any depth fails, every call of
\* calculate_folder_size above it returns an error, the tool prints the error
\* and no size; a missing path gives NotFound.
C4_StrictAggregation ==
    /\ \A n \in Nodes :
           SizeReturned(n) /\ ~NoFaultIn(Subtree(n)) => ~sres[n].ok
    /\ SizeReturned(Root) /\ fs.fault[Root] = "stat"
           => sres[Root] = Err("NotFound")
    /\ pc = "exited" /\ SizeReturned(Root) /\ ~NoFaultIn(Nodes)
           => /\ stderr = <<<<"Error", sres[Root].kind>>>>
              /\ stdout = <<<<"Time taken">>>>

\* C4 witness: the stat of an entry two levels down failed after a file had
\* been summed, and the tool has printed the error.
C4_Witness ==
    /\ pc = "exited"
    /\ SizeReturned(Root)
    /\ ~sres[Root].ok
    /\ \E x \in Faulty : x # Root /\ fs.parent[x] # Root
    /\ \E f \in Nodes : IsFile(f) /\ sres[f].ok

\* No entry of the tree is a .gitignore file.
NoGitignoreFile == \A n \in Nodes : fs.gitignore[n] = {}

\* C2: on a tree without .gitignore files none of whose calls fails, the
\* size of the root node of the index is what the size tool returns for the
\* root, and every Directory node of the index has the size the size tool
\* computes for its directory.
C2_IndexSizeIsTotalSize ==
    NoGitignoreFile /\ NoFaultIn(Nodes) =>
        \A n \in Nodes :
            IndexReturned(n) /\ SizeReturned(n) =>
                /\ ires[n].ok
                /\ sres[n].ok
                /\ ires[n].val.size = sres[n].val

\* C2 witness: both tools have returned on a root with two entries of its own
\* and a subdirectory that holds a file.
C2_Witness ==
    /\ NoGitignoreFile
    /\ IndexReturned(Root) /\ SizeReturned(Root)
    /\ ires[Root].ok /\ sres[Root].ok
    /\ Len(ires[Root].val.children) >= 2
    /\ \E d \in Children(Root) :
           /\ IsDir(d) /\ IndexReturned(d) /\ SizeReturned(d)
           /\ ires[d].val.node_type = "Directory"
           /\ ires[d].val.size > 0

-----------------------------------------------------------------------------
(* Properties of the indexer *)

RECURSIVE SumSizes(_)
SumSizes(children) ==
    IF children = <<>> THEN 0
    ELSE Head(children).size + SumSizes(Tail(children))

\* Every Directory node of the tree has the sum of the sizes of its children
\* as its size.
RECURSIVE SizeInvariant(_)
SizeInvariant(node) ==
    /\ node.node_type = "Directory" => node.size = SumSizes(node.children)
    /\ \A i \in 1 .. Len(node.children) : SizeInvariant(node.children[i])

\* No File and no IgnoredDirectory node of the tree has children.
RECURSIVE LeavesHaveNoChildren(_)
LeavesHaveNoChildren(node) ==
    /\ node.node_type # "Directory" => node.children = <<>>
    /\ \A i \in 1 .. Len(node.children) : LeavesHaveNoChildren(node.children[i])

\* index_folder finds directory n ignored: n matches the rules of its own
\* .gitignore.
SelfIgnored(n) == IsDir(n) /\ matched(read_gitignore(n), n)

\* C1: every tree index_folder returns, and the tree written to
\* file_tree.json, keeps the size of each Directory node equal to the sum of
\* the sizes of its children.
C1_DirectorySizeIsSumOfChildren ==
    /\ \A n \in Nodes : IndexReturned(n) /\ ires[n].ok => SizeInvariant(ires[n].val)
    /\ \A i \in 1 .. Len(file_tree_json) : SizeInvariant(file_tree_json[i])

\* C1 witness: a Directory node was returned with two children in it and a
\* third entry of the directory dropped.
C1_Witness ==
    \E n \in Nodes :
        /\ IndexReturned(n) /\ ires[n].ok
        /\ ires[n].val.node_type = "Directory"
        /\ Len(ires[n].val.children) = 2
        /\ ires[n].val.size > 0
        /\ Cardinality(Children(n)) = 3

\* The call of index_folder on c fails: a call on c itself fails, or c is an
\* ignored directory and a call on an entry below it fails.
IndexFails(c) ==
    \/ fs.fault[c] # "none"
    \/ SelfIgnored(c) /\ ~NoFaultIn(Subtree(c))

\* index_folder(n) has returned the Directory node of the entries of n whose
\* indexing succeeded, each once.
ReturnsSurvivors(n) ==
    /\ ires[n].ok
    /\ ires[n].val.node_type = "Directory"
    /\ ires[n].val.name = FileName(n)
    /\ Len(ires[n].val.children) = Cardinality({c \in Children(n) : ~IndexFails(c)})
    /\ {ires[n].val.children[i] : i \in 1 .. Len(ires[n].val.children)}
           = {ires[c].val : c \in {x \in Children(n) : ~IndexFails(x)}}
    /\ ires[n].val.size
           = SumOver({c \in Children(n) : ~IndexFails(c)},
                     [c \in Nodes |-> IF ires[c].ok THEN ires[c].val.size ELSE 0])

\* C5 as stated: a failing call removes the entry it fails on from its
\* parent and nothing else: index_folder fails on the entries on which a call
\* fails and on no other, so never on a root that can be read.
C5_LenientEverywhere ==
    \A n \in Nodes : IndexReturned(n) => (ires[n].ok <=> fs.fault[n] = "none")

\* C5 amended: a readable directory that is not ignored is returned as the
\* Directory node of its surviving entries; an entry does not survive when a
\* call on it fails or when it is an ignored directory with a failing entry
\* anywhere below it; the call on the root fails only when the root does not
\* survive in that sense.
C5_LenientOutsideIgnored ==
    /\ \A n \in Nodes :
           IndexReturned(n) /\ IsDir(n) /\ fs.fault[n] = "none" /\ ~SelfIgnored(n)
               => ReturnsSurvivors(n)
    /\ \A n \in Nodes : IndexReturned(n) => (ires[n].ok <=> ~IndexFails(n))

\* C5 witness: an entry two levels down failed; its parent was returned
\* without it and the root was returned with the parent in it.
C5_Witness ==
    \E x \in Faulty :
        /\ x # Root /\ fs.parent[x] # Root
        /\ ~SelfIgnored(fs.parent[x])
        /\ IndexReturned(Root) /\ ires[Root].ok
        /\ ires[Root].val.node_type = "Directory"
        /\ ires[fs.parent[x]].ok
        /\ \E i \in 1 .. Len(ires[Root].val.children) :
               ires[Root].val.children[i] = ires[fs.parent[x]].val
        /\ Len(ires[fs.parent[x]].val.children) = Cardinality(Children(fs.parent[x])) - 1
        /\ Len(ires[fs.parent[x]].val.children) >= 1

\* C6 as stated: a subdirectory of the root that the .gitignore of the root
\* excludes, and that has no .gitignore of its own, is in the tree of the
\* root as one IgnoredDirectory node named by its full path, without
\* children, whose size is the byte sum of what is below it.
C6_ParentRulesIgnoreSubdirectory ==
    \A b \in Children(Root) :
        /\ IsDir(b)
        /\ matched(read_gitignore(Root), b)
        /\ GitignoreFiles(b) = {}
        /\ ~SelfIgnored(Root)
        /\ NoFaultIn(Nodes)
        /\ IndexReturned(Root)
        => /\ ires[Root].ok
           /\ Cardinality({i \in 1 .. Len(ires[Root].val.children) :
                  ires[Root].val.children[i] =
                      [name |-> PathOf(b), size |-> TotalBytes(b),
                       node_type |-> "IgnoredDirectory", children |-> <<>>]}) = 1

\* C7: a directory that matches the rules loaded from its own .gitignore,
\* with no failing call below it, is returned as an IgnoredDirectory node
\* named by its path, without children, whose size is the sum of the lengths
\* of all files below it, the ignored ones included; and no File or
\* IgnoredDirectory node of any returned tree has children.
C7_IgnoredDirectoryIsLeafWithByteSum ==
    /\ \A n \in Nodes :
           IndexReturned(n) /\ SelfIgnored(n) /\ NoFaultIn(Subtree(n))
               => ires[n] = Ok([name |-> PathOf(n), size |-> TotalBytes(n),
                                node_type |-> "IgnoredDirectory",
                                children |-> <<>>])
    /\ \A n \in Nodes : IndexReturned(n) /\ ires[n].ok => LeavesHaveNoChildren(ires[n].val)

\* C7 witness: an ignored directory was returned that holds a subdirectory
\* with a file that the rules match as well.
C7_Witness ==
    \E n \in Nodes :
        /\ IndexReturned(n) /\ SelfIgnored(n) /\ NoFaultIn(Subtree(n))
        /\ ires[n].ok
        /\ \E x \in FilesBelow(n) :
               /\ fs.parent[x] # n
               /\ matched(read_gitignore(n), x)

\* The indexer has run and exited (not by the usage message).
IndexExited == pc = "exited" /\ IndexReturned(folder_path)
WriteFailed == stderr = <<<<"Error", "WriteFailed">>>>
Confirmation == <<"File tree has been indexed and saved to file_tree.json">>

\* C9 as stated: file_tree.json is written and the confirmation printed only
\* after index_folder has returned the tree of the root, never after it
\* failed; and a failing call on an entry below the root never keeps the file
\* from being written.
C9_OnlyRootFailureAborts ==
    /\ file_tree_json # <<>> =>
           /\ IndexExited
           /\ ires[folder_path].ok
           /\ file_tree_json = <<ires[folder_path].val>>
    /\ IndexExited /\ ~ires[folder_path].ok =>
           /\ file_tree_json = <<>>
           /\ stdout = <<>>
    /\ IndexExited /\ fs.fault[folder_path] = "none" /\ ~WriteFailed =>
           /\ file_tree_json # <<>>
           /\ stdout[1] = Confirmation

\* C9 amended: as stated, except that a failing call below the root keeps the
\* file from being written when the root itself is an ignored directory.
C9_RootFailureAborts ==
    /\ file_tree_json # <<>> =>
           /\ IndexExited
           /\ ires[folder_path].ok
           /\ file_tree_json = <<ires[folder_path].val>>
    /\ IndexExited /\ ~ires[folder_path].ok =>
           /\ file_tree_json = <<>>
           /\ stdout = <<>>
    /\ IndexExited /\ fs.fault[folder_path] = "none" /\ ~WriteFailed
          /\ ~SelfIgnored(folder_path) =>
           /\ file_tree_json # <<>>
           /\ stdout[1] = Confirmation
    /\ IndexExited /\ fs.fault[folder_path] # "none" => ~ires[folder_path].ok

\* C9 witness: the indexer has exited without output because the root could
\* not be enumerated.
C9_Witness ==
    /\ IndexExited
    /\ fs.fault[Root] = "readdir"
    /\ Children(Root) # {}
    /\ file_tree_json = <<>>
    /\ stdout = <<>>
    /\ stderr = <<<<"Error", "PermissionDenied">>>>

\* C8: on an unchanged tree none of whose calls fails, a second run of the
\* indexer on the same path returns, for the root and for every entry below
\* it, the tree the first run returned, up to the order of the children.
C8_RerunReturnsSameTree ==
    folder_path = Root =>
        \A n \in Nodes :
            prev[n].seen /\ IndexReturned(n)
                => prev[n].result = CanonResult(ires[n])

\* C8 witness: the second run has returned the tree of the root with its
\* children in another order than in the tree the first run wrote.
C8_Witness ==
    /\ prev[Root].seen
    /\ folder_path = Root
    /\ pc = "index"
    /\ IndexReturned(Root) /\ ires[Root].ok
    /\ file_tree_json # <<>>
    /\ file_tree_json[1] # ires[Root].val
    /\ Canon(file_tree_json[1]) = Canon(ires[Root].val)

\* C10: the rules given to index_folder by its caller do not change what it
\* returns: a path indexed under two different rule sets gives the same tree
\* up to the order of children; a file the given rules match is returned as a
\* File node with its length; a directory that only the given rules match is
\* returned as a Directory node.
C10_InheritedRulesHaveNoEffect ==
    \A n \in Nodes :
        /\ prev[n].seen /\ IndexReturned(n) /\ prev[n].gitignore # inh[n]
               => prev[n].result = CanonResult(ires[n])
        /\ IndexReturned(n) /\ IsFile(n) /\ matched(inh[n], n)
               => ires[n] = Ok([name |-> FileName(n), size |-> FileLen(n),
                                node_type |-> "File", children |-> <<>>])
        /\ IndexReturned(n) /\ IsDir(n) /\ matched(inh[n], n) /\ ~SelfIgnored(n)
               => ires[n].ok /\ ires[n].val.node_type = "Directory"

\* C10 witness: a directory that the .gitignore of its parent excludes was
\* indexed under the rules of its parent and then, as the path of a second
\* run, under its own.
C10_Witness ==
    \E n \in Nodes :
        /\ IsDir(n)
        /\ Children(n) # {}
        /\ prev[n].seen /\ IndexReturned(n)
        /\ prev[n].gitignore # inh[n]
        /\ matched(prev[n].gitignore, n)
        /\ ~matched(inh[n], n)

=============================================================================
